---- MODULE Spec2Model ----
(***************************************************************************)
(* State-machine model of TobiiGlassesTracker                              *)
(* (src/pygaze/_eyetracker/libtobiiglasses.py).                            *)
(*                                                                         *)
(* The tracker is driven by one caller thread (the experiment script) and  *)
(* by the logger thread that start_logging creates.  The Tracker Link      *)
(* (self.tobiiglasses) is an external collaborator: its calls are recorded *)
(* in `calls`, its streaming flag is `streaming`, and the ids it hands out *)
(* are fresh.                                                              *)
(***************************************************************************)
EXTENDS Integers, Sequences, FiniteSets, TLC

VARIABLES
    eventdetection,          \* self.eventdetection
    logging,                 \* self.logging
    streaming,               \* self.tobiiglasses.is_streaming()
    current_recording_id,    \* self.current_recording_id
    current_participant_id,  \* self.current_participant_id
    current_project_id,      \* self.current_project_id
    nextid,                  \* the link's counter of ids handed out
    calls,                   \* link calls made by the current / last operation
    logged,                  \* log.error / log.debug / print lines of that operation
    op,                      \* the current / last operation of the caller thread
    pre,                     \* the tracker's attributes when that operation was called
    result,                  \* what that operation returned or raised
    pc,                      \* where the caller thread is
    logger_pc,               \* where the logger thread is
    file,                    \* lines written to the log file
    loggers,                 \* logger threads started and not yet terminated
    rows_after_stop,         \* data rows the newest logger thread wrote with the flag clear
    recordings,              \* the link's start_recording / stop_recording calls so far
    entered,                 \* detector entry points invoked by the operation
    polled,                  \* number of samples the operation has read from the link
    npos,                    \* the sample read last (local npos / newpos)
    now,                     \* clock.get_time()
    spos,                    \* local spos of the fixation detectors
    t0,                      \* local t0 of the fixation detectors
    data,                    \* what wait_for_fixation_start returned last
    init_run,                \* self.init_run
    gaze_samples,            \* self.gaze_samples
    gp3_samples,             \* self.gp3_samples
    eye_samples              \* self.eye_samples

vars == <<eventdetection, logging, streaming, current_recording_id,
          current_participant_id, current_project_id, nextid, calls, logged,
          op, pre, result, pc, logger_pc, file, loggers, rows_after_stop,
          recordings, entered, polled, npos, now, spos, t0, data,
          init_run, gaze_samples, gp3_samples, eye_samples>>

session == <<current_recording_id, current_participant_id, current_project_id>>
loggervars == <<logger_pc, file, loggers, rows_after_stop>>
windowvars == <<init_run, gaze_samples, gp3_samples, eye_samples>>
detectorvars == <<entered, polled, npos, now, spos, t0, data, windowvars>>

(***************************************************************************)
(* Bounds of the model.                                                    *)
(***************************************************************************)
MaxIds == 3        \* ids the link hands out in one run
MaxFileLen == 4    \* lines of the log file
MaxPolls == 5      \* samples one detector call reads
MaxTime == 300     \* clock.get_time() stops advancing here
MaxWindow == 3     \* entries of a sample sequence handed to is_same_event
MaxTriggers == 2   \* entries of the trigger list handed to start_logging
MaxTurns == 2      \* turns of the saccade-end loop

(***************************************************************************)
(* Values.                                                                 *)
(***************************************************************************)
None == <<>>

Id(kind, n) == <<kind, n>>

Call(f, a) == [f |-> f, a |-> a]

\* one start_recording / stop_recording call on the link, and whether the
\* link accepted it (lines 874 and 906)
LinkCall(call, id, ok) == [call |-> call, id |-> id, ok |-> ok]

Op(name, arg) == [name |-> name, arg |-> arg]

\* What an operation returned (kind "None", "True", "False", ...) or raised
\* (kind "Exception", "TypeError").
R(kind, t, val) == [kind |-> kind, t |-> t, val |-> val]

Ret(kind) == R(kind, 0, <<>>)

Bool(b) == IF b THEN Ret("True") ELSE Ret("False")

Pending == Ret("pending")

DetectionArgs == {"pygaze", "native", "other"}

NativeWarning == "print: WARNING! 'native' event detection has been selected"

NotSupported == "print: function not supported yet"

(***************************************************************************)
(* __init__ (lines 114-230).  Line 194 stores the constructor's            *)
(* eventdetection argument and line 195 passes it to set_detection_type,   *)
(* which warns on 'native' and stores 'pygaze'.                            *)
(***************************************************************************)
\* The tracker's attributes, as an operation finds them when it is called.
Snapshot ==
    [eventdetection |-> eventdetection, logging |-> logging, streaming |-> streaming,
     current_recording_id |-> current_recording_id,
     current_participant_id |-> current_participant_id,
     current_project_id |-> current_project_id]

detection_warning(e) == IF e = "native" THEN <<NativeWarning>> ELSE <<>>

Init ==
    \E e \in DetectionArgs :
        /\ eventdetection = "pygaze"
        /\ logged = detection_warning(e)
        /\ op = Op("__init__", e)
        /\ pre = [eventdetection |-> e, logging |-> FALSE, streaming |-> FALSE,
                  current_recording_id |-> None, current_participant_id |-> None,
                  current_project_id |-> None]
        /\ logging = FALSE
        /\ streaming = FALSE
        /\ current_recording_id = None
        /\ current_participant_id = None
        /\ current_project_id = None
        /\ nextid = 1
        /\ calls = <<>>
        /\ result = Ret("None")
        /\ pc = "idle"
        /\ logger_pc = "none"
        /\ file = <<>>
        /\ loggers = 0
        /\ rows_after_stop = 0
        /\ recordings = <<>>
        /\ entered = <<>>
        /\ polled = 0
        /\ npos = None
        /\ now = 0
        /\ spos = None
        /\ t0 = 0
        /\ data = Ret("None")
        /\ init_run = TRUE
        /\ gaze_samples = <<>>
        /\ gp3_samples = <<>>
        /\ eye_samples = <<>>

(***************************************************************************)
(* set_detection_type (lines 911-943).                                     *)
(***************************************************************************)
set_detection_type_stores_argument ==
    /\ pc = "idle"
    /\ \E e \in DetectionArgs :
        /\ op' = Op("set_detection_type", e)
        /\ pre' = Snapshot
        /\ logged' = detection_warning(e)
        /\ eventdetection' = IF e = "native" THEN "native" ELSE "pygaze"
        /\ result' = R("Triple", 0, <<eventdetection', eventdetection', eventdetection'>>)
    /\ calls' = <<>>
    /\ UNCHANGED <<logging, streaming, session, nextid, pc, loggervars, detectorvars, recordings>>

set_detection_type ==
    /\ pc = "idle"
    /\ \E e \in DetectionArgs :
        /\ op' = Op("set_detection_type", e)
        /\ pre' = Snapshot
        /\ logged' = detection_warning(e)
        /\ eventdetection' = "pygaze"
        /\ result' = R("Triple", 0, <<eventdetection', eventdetection', eventdetection'>>)
    /\ calls' = <<>>
    /\ UNCHANGED <<logging, streaming, session, nextid, pc, loggervars, detectorvars, recordings>>

(***************************************************************************)
(* start_capturing (lines 378-385) and stop_capturing (lines 388-395).     *)
(***************************************************************************)
start_capturing ==
    /\ pc = "idle"
    /\ op' = Op("start_capturing", None)
    /\ pre' = Snapshot
    /\ IF ~streaming
       THEN /\ calls' = <<Call("start_streaming", None)>>
            /\ logged' = <<>>
       ELSE /\ calls' = <<>>
            /\ logged' = <<"error: The eye-tracker is already in capturing mode.">>
    /\ streaming' = TRUE
    /\ result' = Bool(streaming')
    /\ UNCHANGED <<eventdetection, logging, session, nextid, pc, loggervars, detectorvars, recordings>>

stop_capturing ==
    /\ pc = "idle"
    /\ op' = Op("stop_capturing", None)
    /\ pre' = Snapshot
    /\ IF streaming
       THEN /\ calls' = <<Call("stop_streaming", None)>>
            /\ logged' = <<>>
       ELSE /\ calls' = <<>>
            /\ logged' = <<"error: The eye-tracker is not in capturing mode.">>
    /\ streaming' = FALSE
    /\ result' = Bool(~streaming')
    /\ UNCHANGED <<eventdetection, logging, session, nextid, pc, loggervars, detectorvars, recordings>>

(***************************************************************************)
(* set_current_project (lines 433-438) and set_current_participant         *)
(* (lines 441-449).  The optional name does not change the control flow.   *)
(***************************************************************************)
set_current_project ==
    /\ pc = "idle"
    /\ nextid <= MaxIds
    /\ op' = Op("set_current_project", None)
    /\ pre' = Snapshot
    /\ current_project_id' = Id("project", nextid)
    /\ nextid' = nextid + 1
    /\ calls' = <<Call("create_project", None)>>
    /\ logged' = <<>>
    /\ result' = Ret("None")
    /\ UNCHANGED <<eventdetection, logging, streaming, current_recording_id,
                   current_participant_id, pc, loggervars, detectorvars, recordings>>

set_current_participant_unguarded ==
    /\ pc = "idle"
    /\ op' = Op("set_current_participant", None)
    /\ pre' = Snapshot
    /\ nextid <= MaxIds
    /\ current_participant_id' = Id("participant", nextid)
    /\ nextid' = nextid + 1
    /\ calls' = <<Call("create_participant", current_project_id)>>
    /\ logged' = <<>>
    /\ result' = Ret("None")
    /\ UNCHANGED <<eventdetection, logging, streaming, current_recording_id,
                   current_project_id, pc, loggervars, detectorvars, recordings>>

set_current_participant ==
    /\ pc = "idle"
    /\ op' = Op("set_current_participant", None)
    /\ pre' = Snapshot
    /\ IF current_project_id = None
       THEN /\ logged' = <<"error: There is no project to assign a participant.">>
            /\ calls' = <<>>
            /\ UNCHANGED <<current_participant_id, nextid>>
       ELSE /\ nextid <= MaxIds
            /\ current_participant_id' = Id("participant", nextid)
            /\ nextid' = nextid + 1
            /\ calls' = <<Call("create_participant", current_project_id)>>
            /\ logged' = <<>>
    /\ result' = Ret("None")
    /\ UNCHANGED <<eventdetection, logging, streaming, current_recording_id,
                   current_project_id, pc, loggervars, detectorvars, recordings>>

(***************************************************************************)
(* calibrate (lines 398-430).  Lines 419 and 422 call self.set_project and *)
(* self.create_participant; the class defines set_current_project and      *)
(* set_current_participant but no method of either of those names, so the  *)
(* attribute lookup raises AttributeError before anything is assigned.     *)
(* Line 428 blocks in the link's wait_until_is_calibrated.                 *)
(***************************************************************************)
calibrate ==
    /\ pc = "idle"
    /\ op' = Op("calibrate", None)
    /\ pre' = Snapshot
    /\ logged' = <<>>
    /\ IF current_project_id = None \/ current_participant_id = None
       THEN /\ calls' = <<>>
            /\ result' = Ret("AttributeError")
            /\ UNCHANGED <<nextid, pc>>
       ELSE /\ nextid <= MaxIds
            /\ calls' = <<Call("create_calibration",
                               <<current_project_id, current_participant_id>>),
                          Call("start_calibration", Id("calibration", nextid)),
                          Call("wait_until_is_calibrated", Id("calibration", nextid))>>
            /\ nextid' = nextid + 1
            /\ result' = Pending
            /\ pc' = "wait_until_is_calibrated"
    /\ UNCHANGED <<eventdetection, logging, streaming, session, loggervars, detectorvars, recordings>>

\* wait_until_is_calibrated returns the link's verdict: lines 428-430
calibrate_done ==
    /\ pc = "wait_until_is_calibrated"
    /\ \E res \in BOOLEAN : result' = Bool(res)
    /\ pc' = "idle"
    /\ UNCHANGED <<eventdetection, logging, streaming, session, nextid, calls, logged,
                   op, pre, loggervars, detectorvars, recordings>>

(***************************************************************************)
(* start_recording (lines 858-879).  The link may reject the start: the    *)
(* except clause of line 876 then raises.                                  *)
(***************************************************************************)
start_recording_swallows_rejection ==
    /\ pc = "idle"
    /\ op' = Op("start_recording", None)
    /\ pre' = Snapshot
    /\ IF current_recording_id = None
       THEN /\ nextid <= MaxIds
            /\ \E accepted \in BOOLEAN :
                /\ current_recording_id' = Id("recording", nextid)
                /\ nextid' = nextid + 1
                /\ calls' = <<Call("create_recording", current_participant_id),
                              Call("start_recording", current_recording_id')>>
                /\ logged' = IF accepted THEN <<"debug: Recording started!">>
                                         ELSE <<"error: failed to start recording">>
                /\ result' = Ret("None")
                /\ recordings' = Append(recordings,
                        LinkCall("start_recording", current_recording_id', accepted))
       ELSE /\ logged' = <<"error: The Tobii Pro Glasses is already recording!">>
            /\ calls' = <<>>
            /\ result' = Ret("None")
            /\ UNCHANGED <<current_recording_id, nextid, recordings>>
    /\ UNCHANGED <<eventdetection, logging, streaming, current_participant_id,
                   current_project_id, pc, loggervars, detectorvars>>

start_recording_rolls_back ==
    /\ pc = "idle"
    /\ op' = Op("start_recording", None)
    /\ pre' = Snapshot
    /\ IF current_recording_id = None
       THEN /\ nextid <= MaxIds
            /\ \E accepted \in BOOLEAN :
                /\ current_recording_id' =
                        IF accepted THEN Id("recording", nextid) ELSE None
                /\ nextid' = nextid + 1
                /\ calls' = <<Call("create_recording", current_participant_id),
                              Call("start_recording", Id("recording", nextid))>>
                /\ logged' = IF accepted THEN <<"debug: Recording started!">> ELSE <<>>
                /\ result' = IF accepted THEN Ret("None") ELSE Ret("Exception")
                /\ recordings' = Append(recordings,
                        LinkCall("start_recording", Id("recording", nextid), accepted))
       ELSE /\ logged' = <<"error: The Tobii Pro Glasses is already recording!">>
            /\ calls' = <<>>
            /\ result' = Ret("None")
            /\ UNCHANGED <<current_recording_id, nextid, recordings>>
    /\ UNCHANGED <<eventdetection, logging, streaming, current_participant_id,
                   current_project_id, pc, loggervars, detectorvars>>

start_recording_unguarded ==
    /\ pc = "idle"
    /\ op' = Op("start_recording", None)
    /\ pre' = Snapshot
    /\ nextid <= MaxIds
    /\ \E accepted \in BOOLEAN :
        /\ current_recording_id' = Id("recording", nextid)
        /\ nextid' = nextid + 1
        /\ calls' = <<Call("create_recording", current_participant_id),
                      Call("start_recording", current_recording_id')>>
        /\ logged' = IF accepted THEN <<"debug: Recording started!">> ELSE <<>>
        /\ result' = IF accepted THEN Ret("None") ELSE Ret("Exception")
        /\ recordings' = Append(recordings,
                LinkCall("start_recording", current_recording_id', accepted))
    /\ UNCHANGED <<eventdetection, logging, streaming, current_participant_id,
                   current_project_id, pc, loggervars, detectorvars>>

start_recording ==
    /\ pc = "idle"
    /\ op' = Op("start_recording", None)
    /\ pre' = Snapshot
    /\ IF current_recording_id = None
       THEN /\ nextid <= MaxIds
            /\ \E accepted \in BOOLEAN :
                /\ current_recording_id' = Id("recording", nextid)
                /\ nextid' = nextid + 1
                /\ calls' = <<Call("create_recording", current_participant_id),
                              Call("start_recording", current_recording_id')>>
                /\ logged' = IF accepted THEN <<"debug: Recording started!">> ELSE <<>>
                /\ result' = IF accepted THEN Ret("None") ELSE Ret("Exception")
                /\ recordings' = Append(recordings,
                        LinkCall("start_recording", current_recording_id', accepted))
       ELSE /\ logged' = <<"error: The Tobii Pro Glasses is already recording!">>
            /\ calls' = <<>>
            /\ result' = Ret("None")
            /\ UNCHANGED <<current_recording_id, nextid, recordings>>
    /\ UNCHANGED <<eventdetection, logging, streaming, current_participant_id,
                   current_project_id, pc, loggervars, detectorvars>>

(***************************************************************************)
(* stop_recording (lines 889-908).  Line 907 blocks in the link's          *)
(* wait_until_recording_is_done; line 908 runs when that call returns.     *)
(***************************************************************************)
stop_recording_resets_before_waiting ==
    /\ pc = "idle"
    /\ op' = Op("stop_recording", None)
    /\ pre' = Snapshot
    /\ IF current_recording_id = None
       THEN /\ logged' = <<"error: There is no recordings started!">>
            /\ calls' = <<>>
            /\ result' = Ret("None")
            /\ UNCHANGED <<current_recording_id, pc, recordings>>
       ELSE /\ calls' = <<Call("stop_recording", current_recording_id),
                          Call("wait_until_recording_is_done", current_recording_id)>>
            /\ current_recording_id' = None
            /\ logged' = <<>>
            /\ result' = Pending
            /\ recordings' = Append(recordings,
                    LinkCall("stop_recording", current_recording_id, TRUE))
            /\ pc' = "wait_until_recording_is_done"
    /\ UNCHANGED <<eventdetection, logging, streaming, current_participant_id,
                   current_project_id, nextid, loggervars, detectorvars>>

stop_recording ==
    /\ pc = "idle"
    /\ op' = Op("stop_recording", None)
    /\ pre' = Snapshot
    /\ IF current_recording_id = None
       THEN /\ logged' = <<"error: There is no recordings started!">>
            /\ calls' = <<>>
            /\ result' = Ret("None")
            /\ UNCHANGED <<pc, recordings>>
       ELSE /\ calls' = <<Call("stop_recording", current_recording_id),
                          Call("wait_until_recording_is_done", current_recording_id)>>
            /\ logged' = <<>>
            /\ result' = Pending
            /\ recordings' = Append(recordings,
                    LinkCall("stop_recording", current_recording_id, TRUE))
            /\ pc' = "wait_until_recording_is_done"
    /\ UNCHANGED <<eventdetection, logging, streaming, session, nextid,
                   loggervars, detectorvars>>

stop_recording_done_keeps_id ==
    /\ pc = "wait_until_recording_is_done"
    /\ result' = Ret("None")
    /\ pc' = "idle"
    /\ UNCHANGED <<eventdetection, logging, streaming, session, nextid, calls, logged,
                   op, pre, loggervars, detectorvars, recordings>>

\* wait_until_recording_is_done returns: line 908.
stop_recording_done ==
    /\ pc = "wait_until_recording_is_done"
    /\ current_recording_id' = None
    /\ result' = Ret("None")
    /\ pc' = "idle"
    /\ UNCHANGED <<eventdetection, logging, streaming, current_participant_id,
                   current_project_id, nextid, calls, logged, op, pre, loggervars,
                   detectorvars, recordings>>

(***************************************************************************)
(* start_logging (lines 458-468): creates and starts the logger thread.    *)
(***************************************************************************)
start_logging_unguarded ==
    /\ pc = "idle"
    /\ op' = Op("start_logging", None)
    /\ pre' = Snapshot
    /\ Len(file) < MaxFileLen
    /\ logger_pc' = "header"
    /\ loggers' = loggers + 1
    /\ rows_after_stop' = 0
    /\ logging' = TRUE
    /\ logged' = <<"debug: Start logging selected data in file">>
    /\ calls' = <<>>
    /\ result' = Bool(logging')
    /\ UNCHANGED <<eventdetection, streaming, session, nextid, pc, file, detectorvars, recordings>>

start_logging ==
    /\ pc = "idle"
    /\ op' = Op("start_logging", None)
    /\ pre' = Snapshot
    /\ IF ~logging
       THEN /\ Len(file) < MaxFileLen
            /\ logger_pc' = "header"
            /\ loggers' = loggers + 1
            /\ rows_after_stop' = 0
            /\ logging' = TRUE
            /\ logged' = <<"debug: Start logging selected data in file">>
       ELSE /\ logged' = <<"error: The eye-tracker is already in logging mode.">>
            /\ UNCHANGED <<logging, logger_pc, loggers, rows_after_stop>>
    /\ calls' = <<>>
    /\ result' = Bool(logging')
    /\ UNCHANGED <<eventdetection, streaming, session, nextid, pc, file, detectorvars, recordings>>

(***************************************************************************)
(* __data_logger__ (lines 362-375), the logger thread.                     *)
(***************************************************************************)
\* lines 364-367: open the file in append mode and write the header
logger_header ==
    /\ logger_pc = "header"
    /\ file' = Append(file, "header")
    /\ logger_pc' = "check"
    /\ UNCHANGED <<eventdetection, logging, streaming, session, nextid, calls,
                   logged, op, pre, result, pc, loggers, rows_after_stop, detectorvars,
                   recordings>>

\* line 369: while self.logging; the thread terminates when the loop ends
logger_check_ignores_flag ==
    /\ logger_pc = "check"
    /\ IF Len(file) < MaxFileLen
       THEN /\ logger_pc' = "row"
            /\ UNCHANGED loggers
       ELSE /\ logger_pc' = "exited"
            /\ loggers' = loggers - 1
    /\ UNCHANGED rows_after_stop
    /\ UNCHANGED <<eventdetection, logging, streaming, session, nextid, calls,
                   logged, op, pre, result, pc, file, detectorvars, recordings>>

logger_check ==
    /\ logger_pc = "check"
    /\ IF logging
       THEN /\ Len(file) < MaxFileLen
            /\ logger_pc' = "row"
            /\ UNCHANGED loggers
       ELSE /\ logger_pc' = "exited"
            /\ loggers' = loggers - 1
    /\ UNCHANGED rows_after_stop
    /\ UNCHANGED <<eventdetection, logging, streaming, session, nextid, calls,
                   logged, op, pre, result, pc, file, detectorvars, recordings>>

\* lines 371-375: write one row, then sleep one period
logger_row ==
    /\ logger_pc = "row"
    /\ file' = Append(file, "row")
    /\ rows_after_stop' = IF logging THEN rows_after_stop ELSE rows_after_stop + 1
    /\ logger_pc' = "check"
    /\ UNCHANGED <<eventdetection, logging, streaming, session, nextid, calls,
                   logged, op, pre, result, pc, loggers, detectorvars, recordings>>

(***************************************************************************)
(* stop_logging (lines 480-489) and close (lines 491-507).  Line 484       *)
(* blocks in self.logger.join() until the logger thread has terminated.    *)
(***************************************************************************)
stop_logging_without_join ==
    /\ pc = "idle"
    /\ op' = Op("stop_logging", None)
    /\ pre' = Snapshot
    /\ calls' = <<>>
    /\ IF logging
       THEN /\ logging' = FALSE
            /\ logged' = <<"debug: Stop logging!">>
            /\ result' = Bool(~logging')
       ELSE /\ logged' = <<"error: The eye-tracker is not in logging mode.">>
            /\ result' = Bool(~logging)
            /\ UNCHANGED logging
    /\ UNCHANGED <<eventdetection, streaming, session, nextid, pc, loggervars, detectorvars, recordings>>

stop_logging ==
    /\ pc = "idle"
    /\ op' = Op("stop_logging", None)
    /\ pre' = Snapshot
    /\ calls' = <<>>
    /\ IF logging
       THEN /\ logging' = FALSE
            /\ logged' = <<>>
            /\ result' = Pending
            /\ pc' = "join"
       ELSE /\ logged' = <<"error: The eye-tracker is not in logging mode.">>
            /\ result' = Bool(~logging)
            /\ UNCHANGED <<logging, pc>>
    /\ UNCHANGED <<eventdetection, streaming, session, nextid, loggervars, detectorvars, recordings>>

close_stops_streaming_first ==
    /\ pc = "idle"
    /\ op' = Op("close", None)
    /\ pre' = Snapshot
    /\ logged' = <<>>
    /\ IF streaming
       THEN /\ calls' = <<Call("stop_streaming", None)>>
            /\ streaming' = FALSE
       ELSE /\ calls' = <<>>
            /\ UNCHANGED streaming
    /\ IF logging
       THEN /\ logging' = FALSE
            /\ result' = Pending
            /\ pc' = "join"
       ELSE /\ result' = Ret("None")
            /\ UNCHANGED <<logging, pc>>
    /\ UNCHANGED <<eventdetection, session, nextid, loggervars, detectorvars, recordings>>

close ==
    /\ pc = "idle"
    /\ op' = Op("close", None)
    /\ pre' = Snapshot
    /\ logged' = <<>>
    /\ IF logging
       THEN /\ logging' = FALSE
            /\ calls' = <<>>
            /\ result' = Pending
            /\ pc' = "join"
            /\ UNCHANGED streaming
       ELSE /\ IF streaming
               THEN /\ calls' = <<Call("stop_streaming", None)>>
                    /\ streaming' = FALSE
               ELSE /\ calls' = <<>>
                    /\ UNCHANGED streaming
            /\ result' = Ret("None")
            /\ UNCHANGED <<logging, pc>>
    /\ UNCHANGED <<eventdetection, session, nextid, loggervars, detectorvars, recordings>>

\* self.logger.join() returns: lines 485 and 489, and for close lines 506-507
logger_joined ==
    /\ pc = "join"
    /\ logger_pc = "exited"
    /\ pc' = "idle"
    /\ IF op.name = "close"
       THEN /\ IF streaming
               THEN /\ calls' = Append(calls, Call("stop_streaming", None))
                    /\ streaming' = FALSE
               ELSE UNCHANGED <<calls, streaming>>
            /\ logged' = Append(logged, "debug: Stop logging!")
            /\ result' = Ret("None")
       ELSE /\ logged' = Append(logged, "debug: Stop logging!")
            /\ result' = Bool(~logging)
            /\ UNCHANGED <<calls, streaming>>
    /\ UNCHANGED <<eventdetection, logging, session, nextid, op, pre, loggervars,
                   detectorvars, recordings>>

(***************************************************************************)
(* The session specification: the caller thread's session operations and  *)
(* the logger thread.                                                      *)
(***************************************************************************)
Next ==
    \/ set_detection_type
    \/ start_capturing
    \/ stop_capturing
    \/ set_current_project
    \/ set_current_participant
    \/ calibrate
    \/ calibrate_done
    \/ start_recording
    \/ stop_recording
    \/ stop_recording_done
    \/ start_logging
    \/ stop_logging
    \/ close
    \/ logger_joined
    \/ logger_header
    \/ logger_check
    \/ logger_row

Spec == Init /\ [][Next]_vars

\* The logger thread is a thread of its own (line 461): the scheduler keeps
\* running it, and its sleep (line 375) ends.
FairSpec ==
    /\ Spec
    /\ WF_vars(logger_header)
    /\ WF_vars(logger_check)
    /\ WF_vars(logger_row)

(***************************************************************************)
(* Samples.  sample() (lines 764-791) returns the link's latest gaze       *)
(* position as a dict with key 'gp'; [-1,-1] is the link's "no data"       *)
(* value.  The valid positions are chosen so that, with pxfixtresh = 3,    *)
(* <<3,0>> lies on the threshold circle around <<0,0>> and <<0,4>> lies    *)
(* outside it.                                                             *)
(***************************************************************************)
GazePoints == {<<0, 0>>, <<3, 0>>, <<0, 4>>}

Sentinel == <<-1, -1>>

Sample(p) == [gp |-> p]

Samples == {Sample(p) : p \in GazePoints \cup {Sentinel}}

\* event detection properties of __init__
fixtimetresh == 100

weightdist == 10

\* Detection configuration that no line of the class assigns (the docstring
\* of wait_for_fixation_start says it "is created in self.calibration"):
\* the dispersion threshold in pixels, the per-axis distance thresholds and
\* the saccade speed and acceleration thresholds (rationals <<num, den>>,
\* pixels per ms and per ms^2).
pxfixtresh == 3

pxdsttresh == <<1, 1>>

pxspdtresh == <<9, 100>>

pxacctresh == <<1, 1000>>

\* the time that passes between two reads of the clock
Ticks == {0, fixtimetresh \div 2}

(***************************************************************************)
(* is_valid_sample (lines 1436-1465).                                      *)
(***************************************************************************)
is_valid_sample_accepts_sentinel(sample, sample_type) == TRUE

is_valid_sample_rejects_unknown_type(sample, sample_type) ==
    IF sample_type = "gp3"
    THEN sample.gp3 # <<-1, -1, -1>>
    ELSE IF sample_type = "gp"
         THEN sample.gp # <<-1, -1>>
         ELSE IF sample_type = "pc"
              THEN sample.pc # <<-1, -1, -1>>
              ELSE FALSE

is_valid_sample(sample, sample_type) ==
    IF sample_type = "gp3"
    THEN sample.gp3 # <<-1, -1, -1>>
    ELSE IF sample_type = "gp"
         THEN sample.gp # <<-1, -1>>
         ELSE IF sample_type = "pc"
              THEN sample.pc # <<-1, -1, -1>>
              ELSE TRUE

\* lines 1081-1082 and 1227-1228
dist2(a, b) == (a[1] - b[1]) * (a[1] - b[1]) + (a[2] - b[2]) * (a[2] - b[2])

\* the warning every detector prints first when eventdetection is 'native'
\* (lines 1048-1055, 1198-1205, 1305-1312, 1381-1388)
native_warning == IF eventdetection = "native" THEN <<NativeWarning>> ELSE <<>>

\* sample() when the link is not streaming (lines 790-791)
NotCapturing == "error: The eye-tracker is not in capturing mode."

\* one read of the link's latest sample, d ms after the previous read
Poll(s, d) ==
    /\ polled < MaxPolls
    /\ now + d <= MaxTime
    /\ now' = now + d
    /\ polled' = polled + 1
    /\ npos' = s

\* what every detector step leaves alone
TrackerFrame ==
    UNCHANGED <<eventdetection, logging, streaming, session, nextid, loggervars, recordings>>

\* ... and the sample window, which only the experimental detectors touch
DetectorFrame ==
    /\ TrackerFrame
    /\ UNCHANGED windowvars

(***************************************************************************)
(* wait_for_blink_start (lines 999-1014), wait_for_blink_end (983-997).    *)
(***************************************************************************)
blink_body_polls(o, name) ==
    /\ op' = o
    /\ pre' = Snapshot
    /\ entered' = <<name>>
    /\ calls' = <<>>
    /\ logged' = <<>>
    /\ result' = Pending
    /\ pc' = "fixation_start_seek"
    /\ polled' = 0
    /\ npos' = None
    /\ data' = Ret("None")
    /\ UNCHANGED <<now, spos, t0>>
    /\ DetectorFrame

blink_body(o, name) ==
    /\ op' = o
    /\ pre' = Snapshot
    /\ entered' = <<name>>
    /\ calls' = <<>>
    /\ logged' = <<NotSupported>>
    /\ result' = Ret("None")
    /\ pc' = "idle"
    /\ polled' = 0
    /\ npos' = None
    /\ data' = Ret("None")
    /\ UNCHANGED <<now, spos, t0>>
    /\ DetectorFrame

wait_for_blink_start ==
    /\ pc = "idle"
    /\ blink_body(Op("wait_for_blink_start", None), "wait_for_blink_start")

wait_for_blink_end ==
    /\ pc = "idle"
    /\ blink_body(Op("wait_for_blink_end", None), "wait_for_blink_end")

(***************************************************************************)
(* wait_for_saccade_start (lines 1287-1360).  Lines 1318-1360, the         *)
(* detection loop and its return statement, are indented under the         *)
(* `if self.eventdetection == 'native':` of line 1305: with any other      *)
(* detection type the method falls off its end and returns None.           *)
(***************************************************************************)
\* floor of the square root (line 1344); exact on the positions of GazePoints
sqrt(n) == CHOOSE r \in 0..n : r * r <= n /\ (r + 1) * (r + 1) > n

\* lines 1340-1341, (sx/tx)**2 + (sy/ty)**2 > weightdist, without the division
large_enough(sx, sy) ==
    sx * sx * pxdsttresh[2] * pxdsttresh[2] + sy * sy * pxdsttresh[1] * pxdsttresh[1]
        > weightdist * pxdsttresh[1] * pxdsttresh[1] * pxdsttresh[2] * pxdsttresh[2]

\* line 1351 for v1 = s / dt and v0 = v0[1] / v0[2], dt > 0
saccade_started(s, dt, v0) ==
    \/ s * pxspdtresh[2] > pxspdtresh[1] * dt
    \/ (s * v0[2] - v0[1] * dt) * pxacctresh[2] > pxacctresh[1] * dt * dt * v0[2]

\* lines 1329-1360 on the samples still to come, each <<sample, tick>>:
\* the (stime, spos) pair returned, the exception raised, or "blocked" when
\* the loop is still polling after the last of them
RECURSIVE saccade_start_loop(_, _, _, _, _)
saccade_start_loop(stream, t, prevpos, tprev, v0) ==
    IF stream = <<>>
    THEN Ret("blocked")
    ELSE LET newpos == Head(stream)[1]
             t1 == t + Head(stream)[2]
         IN  IF is_valid_sample(newpos, "gp") /\ newpos.gp # prevpos.gp
             THEN LET sx == newpos.gp[1] - prevpos.gp[1]
                      sy == newpos.gp[2] - prevpos.gp[2]
                      s == sqrt(sx * sx + sy * sy)
                  IN  IF large_enough(sx, sy)
                      THEN IF t1 = tprev
                           THEN Ret("ZeroDivisionError")
                           ELSE IF saccade_started(s, t1 - tprev, v0)
                                THEN R("SaccadeStart", t1, prevpos.gp)
                                ELSE saccade_start_loop(Tail(stream), t1, newpos,
                                                        t1, <<s, t1 - tprev>>)
                      ELSE saccade_start_loop(Tail(stream), t1, newpos, tprev, v0)
             ELSE saccade_start_loop(Tail(stream), t1, prevpos, tprev, v0)

\* lines 1318-1325 and then the loop: the first valid sample is prevpos
RECURSIVE saccade_start_run(_, _)
saccade_start_run(stream, t) ==
    IF stream = <<>>
    THEN Ret("blocked")
    ELSE LET newpos == Head(stream)[1]
             t1 == t + Head(stream)[2]
         IN  IF is_valid_sample(newpos, "gp")
             THEN saccade_start_loop(Tail(stream), t1, newpos, t1, <<0, 1>>)
             ELSE saccade_start_run(Tail(stream), t1)

SampleStreams(n) == [1..n -> Samples \X Ticks]

StreamTime(stream) ==
    LET RECURSIVE sum(_)
        sum(i) == IF i = 0 THEN 0 ELSE sum(i - 1) + stream[i][2]
    IN  sum(Len(stream))

\* the detection loop of the 'native' branch: some samples arrive and the
\* loop ends at the last of them.  Called from wait_for_saccade_end (stack
\* not empty), a returned pair is followed by the read of one more valid
\* sample (lines 1396-1398) and the TypeError of line 1402.
saccade_start_native(o, stack) ==
    IF streaming
    THEN \E n \in 1..MaxPolls : \E stream \in SampleStreams(n) :
            LET run == saccade_start_run(stream, now)
                nested == stack # <<>> /\ run.kind = "SaccadeStart"
            IN  /\ now + StreamTime(stream) <= MaxTime
                /\ run.kind # "blocked"
                /\ saccade_start_run(SubSeq(stream, 1, n - 1), now).kind = "blocked"
                /\ now' = now + StreamTime(stream)
                /\ polled' = IF nested THEN n + 1 ELSE n
                /\ npos' = stream[n][1]
                /\ logged' = IF stack = <<>>
                             THEN <<NativeWarning>>
                             ELSE <<NativeWarning, NativeWarning>>
                /\ result' = IF nested THEN Ret("TypeError") ELSE run
    ELSE /\ logged' = IF stack = <<>>
                      THEN <<NativeWarning, NotCapturing>>
                      ELSE <<NativeWarning, NativeWarning, NotCapturing>>
         /\ result' = Ret("TypeError")
         /\ polled' = 0
         /\ npos' = None
         /\ UNCHANGED now

saccade_start_body_polls(o, stack) ==
    /\ op' = o
    /\ pre' = Snapshot
    /\ entered' = Append(stack, "wait_for_saccade_start")
    /\ calls' = <<>>
    /\ pc' = "idle"
    /\ data' = Ret("None")
    /\ UNCHANGED <<spos, t0>>
    /\ DetectorFrame
    /\ saccade_start_native(o, stack)

saccade_start_body(o, stack) ==
    /\ op' = o
    /\ pre' = Snapshot
    /\ entered' = Append(stack, "wait_for_saccade_start")
    /\ calls' = <<>>
    /\ pc' = "idle"
    /\ data' = Ret("None")
    /\ UNCHANGED <<spos, t0>>
    /\ DetectorFrame
    /\ IF eventdetection = "native"
       THEN saccade_start_native(o, stack)
       ELSE /\ logged' = <<>>
            /\ polled' = 0
            /\ npos' = None
            /\ UNCHANGED now
            \* line 1394 of wait_for_saccade_end unpacks the None returned
            /\ result' = IF stack = <<>> THEN Ret("None") ELSE Ret("TypeError")

wait_for_saccade_start ==
    /\ pc = "idle"
    /\ saccade_start_body(Op("wait_for_saccade_start", None), <<>>)

(***************************************************************************)
(* wait_for_saccade_end (lines 1362-1434).  Line 1394 unpacks what         *)
(* wait_for_saccade_start returned: None raises TypeError.  After a        *)
(* (stime, spos) pair, spos is a list and line 1402 indexes it with 'gp',  *)
(* which raises TypeError as well: lines 1404-1434 are never reached.      *)
(***************************************************************************)
saccade_end_body(o) == saccade_start_body(o, <<"wait_for_saccade_end">>)

wait_for_saccade_end ==
    /\ pc = "idle"
    /\ saccade_end_body(Op("wait_for_saccade_end", None))

(***************************************************************************)
(* wait_for_fixation_start (lines 1016-1094), experimental = False.        *)
(***************************************************************************)
\* lines 1048-1066.  Without streaming sample() returns None, and
\* is_valid_sample(None, 'gp') raises TypeError on line 1455.
fixation_start_body(o, stack) ==
    /\ op' = o
    /\ pre' = Snapshot
    /\ entered' = Append(stack, "wait_for_fixation_start")
    /\ calls' = <<>>
    /\ polled' = 0
    /\ npos' = None
    /\ data' = Ret("None")
    /\ IF streaming
       THEN /\ logged' = (IF stack = <<>> THEN <<>> ELSE native_warning) \o native_warning
            /\ result' = Pending
            /\ pc' = "fixation_start_seek"
       ELSE /\ logged' = (IF stack = <<>> THEN <<>> ELSE native_warning)
                            \o native_warning \o <<NotCapturing>>
            /\ result' = Ret("TypeError")
            /\ pc' = "idle"
    /\ UNCHANGED <<now, spos, t0>>
    /\ DetectorFrame

wait_for_fixation_start ==
    /\ pc = "idle"
    /\ fixation_start_body(Op("wait_for_fixation_start", None), <<>>)

\* lines 1066-1071: read samples until one is valid; it is the anchor spos,
\* and t0 is the clock after it
fixation_start_seek ==
    /\ pc = "fixation_start_seek"
    /\ \E s \in Samples, d \in Ticks :
        /\ Poll(s, d)
        /\ spos' = s
        /\ IF is_valid_sample(s, "gp")
           THEN /\ t0' = now'
                /\ pc' = "fixation_start_poll"
           ELSE UNCHANGED <<t0, pc>>
    /\ UNCHANGED <<calls, logged, op, pre, result, entered, data>>
    /\ DetectorFrame

\* line 1094, and lines 1216-1218 when wait_for_fixation_end is the caller
fixation_start_return ==
    /\ data' = R("FixationStart", t0, spos)
    /\ IF entered[1] = "wait_for_fixation_end"
       THEN /\ pc' = "fixation_end_poll"
            /\ UNCHANGED result
       ELSE /\ pc' = "idle"
            /\ result' = data'

\* lines 1075-1094, one turn of the loop
fixation_start_poll_keeps_timer ==
    /\ pc = "fixation_start_poll"
    /\ \E s \in Samples, d \in Ticks :
        /\ Poll(s, d)
        /\ IF is_valid_sample(s, "gp")
           THEN IF dist2(s.gp, spos.gp) > pxfixtresh * pxfixtresh
                THEN /\ spos' = s
                     /\ UNCHANGED <<t0, pc, result, data>>
                ELSE /\ UNCHANGED <<spos, t0>>
                     /\ IF now' - t0 >= fixtimetresh
                        THEN fixation_start_return
                        ELSE UNCHANGED <<pc, result, data>>
           ELSE UNCHANGED <<spos, t0, pc, result, data>>
    /\ UNCHANGED <<calls, logged, op, pre, entered>>
    /\ DetectorFrame

fixation_start_poll ==
    /\ pc = "fixation_start_poll"
    /\ \E s \in Samples, d \in Ticks :
        /\ Poll(s, d)
        /\ IF is_valid_sample(s, "gp")
           THEN IF dist2(s.gp, spos.gp) > pxfixtresh * pxfixtresh
                THEN /\ spos' = s
                     /\ t0' = now'
                     /\ UNCHANGED <<pc, result, data>>
                ELSE /\ UNCHANGED <<spos, t0>>
                     /\ IF now' - t0 >= fixtimetresh
                        THEN fixation_start_return
                        ELSE UNCHANGED <<pc, result, data>>
           ELSE UNCHANGED <<spos, t0, pc, result, data>>
    /\ UNCHANGED <<calls, logged, op, pre, entered>>
    /\ DetectorFrame

(***************************************************************************)
(* wait_for_fixation_end (lines 1174-1234), experimental = False.          *)
(***************************************************************************)
\* lines 1198-1216
fixation_end_body(o) == fixation_start_body(o, <<"wait_for_fixation_end">>)

wait_for_fixation_end ==
    /\ pc = "idle"
    /\ fixation_end_body(Op("wait_for_fixation_end", None))

\* lines 1221-1234, one turn of the loop
fixation_end_poll_returns_deviating_sample ==
    /\ pc = "fixation_end_poll"
    /\ \E s \in Samples, d \in Ticks :
        /\ Poll(s, d)
        /\ IF /\ is_valid_sample(s, "gp")
              /\ dist2(s.gp, spos.gp) > pxfixtresh * pxfixtresh
           THEN /\ result' = R("FixationEnd", now', s)
                /\ pc' = "idle"
           ELSE UNCHANGED <<result, pc>>
    /\ UNCHANGED <<calls, logged, op, pre, entered, spos, t0, data>>
    /\ DetectorFrame

fixation_end_poll ==
    /\ pc = "fixation_end_poll"
    /\ \E s \in Samples, d \in Ticks :
        /\ Poll(s, d)
        /\ IF /\ is_valid_sample(s, "gp")
              /\ dist2(s.gp, spos.gp) > pxfixtresh * pxfixtresh
           THEN /\ result' = R("FixationEnd", now', spos)
                /\ pc' = "idle"
           ELSE UNCHANGED <<result, pc>>
    /\ UNCHANGED <<calls, logged, op, pre, entered, spos, t0, data>>
    /\ DetectorFrame

(***************************************************************************)
(* The experimental fixation detectors: wait_for_fixation_start            *)
(* (lines 1096-1170) and wait_for_fixation_end (lines 1237-1283) called    *)
(* with experimental=True.  Each turn updates the three-channel sample     *)
(* window with one fetch of sample(), sample3D() and eye_position().       *)
(***************************************************************************)
\* the argument experimental=True
Experimental == <<"experimental">>

\* self.num_fixation_samples; lines 1101-1103 spell the window length 3
num_fixation_samples == 3

\* eye_position() (lines 661-723).  self.eye_used is 0 (line 160); line 681
\* binds the method get_lefteyedata without calling it and line 683
\* subscripts it, which raises TypeError (not the IndexError line 684
\* catches).  Without streaming it logs an error and returns None.
eye_position == IF streaming THEN Ret("TypeError") ELSE Ret("None")

\* one fetch of the three channels (lines 1108-1114, 1132-1138, 1251-1257):
\* with streaming sample() and sample3D() read the link and eye_position()
\* raises; without streaming all three log an error and return None, and
\* is_valid_sample(None, 'gp') raises TypeError on line 1455
experimental_fetch ==
    IF eye_position.kind = "TypeError"
    THEN [raised |-> "TypeError", polled |-> 2, logged |-> <<>>]
    ELSE [raised |-> "TypeError", polled |-> 0,
          logged |-> <<NotCapturing, NotCapturing, NotCapturing>>]

\* window[1:]
drop_oldest(window) == SubSeq(window, 2, Len(window))

\* lines 1048-1150 up to the first exception.  In the fill phase line 1107
\* clears init_run before the fetch; in the steady state lines 1127-1129
\* drop the oldest entry of each channel before the fetch.  A tracker that
\* found its window full with init_run still set would reach line 1150,
\* where the global name is_same_event is not defined (the function is a
\* method of the class): NameError.
experimental_start_body(o, stack) ==
    /\ op' = o
    /\ pre' = Snapshot
    /\ entered' = Append(stack, "wait_for_fixation_start")
    /\ calls' = <<>>
    /\ npos' = None
    /\ data' = Ret("None")
    /\ pc' = "idle"
    /\ IF init_run
       THEN IF /\ Len(gaze_samples) < num_fixation_samples
               /\ Len(gp3_samples) < num_fixation_samples
               /\ Len(eye_samples) < num_fixation_samples
            THEN /\ init_run' = FALSE
                 /\ UNCHANGED <<gaze_samples, gp3_samples, eye_samples>>
                 /\ polled' = experimental_fetch.polled
                 /\ logged' = (IF stack = <<>> THEN <<>> ELSE native_warning)
                                  \o native_warning \o experimental_fetch.logged
                 /\ result' = Ret(experimental_fetch.raised)
            ELSE /\ UNCHANGED windowvars
                 /\ polled' = 0
                 /\ logged' = (IF stack = <<>> THEN <<>> ELSE native_warning)
                                  \o native_warning
                 /\ result' = Ret("NameError")
       ELSE /\ UNCHANGED init_run
            /\ gaze_samples' = drop_oldest(gaze_samples)
            /\ gp3_samples' = drop_oldest(gp3_samples)
            /\ eye_samples' = drop_oldest(eye_samples)
            /\ polled' = experimental_fetch.polled
            /\ logged' = (IF stack = <<>> THEN <<>> ELSE native_warning)
                             \o native_warning \o experimental_fetch.logged
            /\ result' = Ret(experimental_fetch.raised)
    /\ UNCHANGED <<now, spos, t0>>
    /\ TrackerFrame

wait_for_fixation_start_experimental ==
    /\ pc = "idle"
    /\ experimental_start_body(Op("wait_for_fixation_start", Experimental), <<>>)

\* line 1238: the exception of wait_for_fixation_start(experimental=True)
\* leaves wait_for_fixation_end before lines 1239-1283 are reached
experimental_end_body(o) == experimental_start_body(o, <<"wait_for_fixation_end">>)

wait_for_fixation_end_experimental ==
    /\ pc = "idle"
    /\ experimental_end_body(Op("wait_for_fixation_end", Experimental))

(***************************************************************************)
(* wait_for_event (lines 946-980).                                         *)
(***************************************************************************)
EventCodes == {2, 3, 4, 5, 6, 7, 8, 9, 99}

\* line 978
unsupported_event(o) ==
    /\ op' = o
    /\ pre' = Snapshot
    /\ entered' = <<>>
    /\ calls' = <<>>
    /\ logged' = <<>>
    /\ result' = Ret("Exception")
    /\ pc' = "idle"
    /\ polled' = 0
    /\ npos' = None
    /\ data' = Ret("None")
    /\ UNCHANGED <<now, spos, t0>>
    /\ DetectorFrame

dispatch_swaps_saccade_and_fixation(event) ==
    LET o == Op("wait_for_event", event)
    IN  IF event = 3 THEN blink_body(o, "wait_for_blink_start")
        ELSE IF event = 4 THEN blink_body(o, "wait_for_blink_end")
        ELSE IF event = 5 THEN fixation_start_body(o, <<>>)
        ELSE IF event = 6 THEN fixation_end_body(o)
        ELSE IF event = 7 THEN saccade_start_body(o, <<>>)
        ELSE IF event = 8 THEN saccade_end_body(o)
        ELSE unsupported_event(o)

dispatch(event) ==
    LET o == Op("wait_for_event", event)
    IN  IF event = 3 THEN blink_body(o, "wait_for_blink_start")
        ELSE IF event = 4 THEN blink_body(o, "wait_for_blink_end")
        ELSE IF event = 5 THEN saccade_start_body(o, <<>>)
        ELSE IF event = 6 THEN saccade_end_body(o)
        ELSE IF event = 7 THEN fixation_start_body(o, <<>>)
        ELSE IF event = 8 THEN fixation_end_body(o)
        ELSE unsupported_event(o)

wait_for_event ==
    /\ pc = "idle"
    /\ \E event \in EventCodes : dispatch(event)

(***************************************************************************)
(* The event-detection specification: the caller thread starts and stops   *)
(* streaming, sets the detection type and waits for events.                *)
(***************************************************************************)
NextEvents ==
    \/ set_detection_type
    \/ start_capturing
    \/ stop_capturing
    \/ wait_for_event
    \/ wait_for_blink_start
    \/ wait_for_blink_end
    \/ wait_for_saccade_start
    \/ wait_for_saccade_end
    \/ wait_for_fixation_start
    \/ fixation_start_seek
    \/ fixation_start_poll
    \/ wait_for_fixation_end
    \/ fixation_end_poll
    \/ wait_for_fixation_start_experimental
    \/ wait_for_fixation_end_experimental

SpecEvents == Init /\ [][NextEvents]_vars

(***************************************************************************)
(* The helper specification: the caller applies is_valid_sample            *)
(* (lines 1436-1465) and is_same_event (lines 1468-1490) to samples of     *)
(* its choice.                                                             *)
(***************************************************************************)
Coords == {-1, 0, 1}

\* the dicts sample(), sample3D() and eye_position() build, by their
\* coordinate key (lines 780, 810, 711)
TypedSamples ==
    {[gp |-> v] : v \in Coords \X Coords}
        \cup {[gp3 |-> v] : v \in Coords \X Coords \X Coords}
        \cup {[pc |-> v] : v \in Coords \X Coords \X Coords}

SampleTypes == {"gp", "gp3", "pc", "pd"}

\* line 1462
UnsupportedType == "error: The supplied sample type is not supported."

\* the call as a whole: sample[sample_type] on a dict without that key
\* raises KeyError (lines 1452, 1455, 1458); an unknown type logs line 1462
is_valid_sample_call ==
    /\ pc = "call"
    /\ op.name = "is_valid_sample"
    /\ LET sample == op.arg[1]
           sample_type == op.arg[2]
       IN  IF sample_type \in {"gp", "gp3", "pc"}
           THEN /\ logged' = <<>>
                /\ result' = IF sample_type \in DOMAIN sample
                              THEN Bool(is_valid_sample(sample, sample_type))
                              ELSE Ret("KeyError")
           ELSE /\ logged' = <<UnsupportedType>>
                /\ result' = Bool(is_valid_sample(sample, sample_type))
    /\ pc' = "idle"
    /\ UNCHANGED <<eventdetection, logging, streaming, session, nextid, calls, op, pre,
                   loggervars, detectorvars, recordings>>

\* the gaze events the link numbers its samples with
Gidx == {1, 2}

EventSamples == {[gidx |-> g] : g \in Gidx}

SampleSeqs == UNION {[1..n -> EventSamples] : n \in 0..MaxWindow}

is_same_event_ignores_eye(gaze_samples_, gp3_samples_, eye_samples_) ==
    \A i \in 1..Len(gaze_samples_) :
        i <= Len(gp3_samples_) => gaze_samples_[i].gidx = gp3_samples_[i].gidx

\* lines 1488-1489: all() over the zip of the three sequences, which stops
\* at the shortest of them
RECURSIVE is_same_event(_, _, _)
is_same_event(gaze_samples_, gp3_samples_, eye_samples_) ==
    IF gaze_samples_ = <<>> \/ gp3_samples_ = <<>> \/ eye_samples_ = <<>>
    THEN TRUE
    ELSE /\ Head(gaze_samples_).gidx = Head(gp3_samples_).gidx
         /\ Head(gp3_samples_).gidx = Head(eye_samples_).gidx
         /\ is_same_event(Tail(gaze_samples_), Tail(gp3_samples_), Tail(eye_samples_))

is_same_event_call ==
    /\ pc = "call"
    /\ op.name = "is_same_event"
    /\ result' = Bool(is_same_event(op.arg[1], op.arg[2], op.arg[3]))
    /\ pc' = "idle"
    /\ UNCHANGED <<eventdetection, logging, streaming, session, nextid, calls, logged,
                   op, pre, loggervars, detectorvars, recordings>>

(***************************************************************************)
(* The lines of the log file: __get_log_header__ (lines 338-359),          *)
(* __get_log_row__ (lines 236-336) and the row line of __data_logger__     *)
(* (line 372).  A line is modelled as the sequence of its "; "-separated   *)
(* fields; a header field is the column's name (without its unit) and a    *)
(* row field is named after the column whose datum it carries.             *)
(***************************************************************************)
Keys == {"mems", "gp", "gp3", "left_eye", "right_eye"}

TriggerNames == {"trigger_a", "trigger_b"}

TriggerLists == UNION {[1..n -> TriggerNames] : n \in 0..MaxTriggers}

MemsColumns == <<"ac_x", "ac_y", "ac_z", "gy_x", "gy_y", "gy_z">>

GpColumns == <<"gp_x", "gp_y">>

Gp3Columns == <<"gp3_x", "gp3_y", "gp3_z">>

LeftColumns ==
    <<"left_pc_x", "left_pc_y", "left_pc_z", "left_pd", "left_gd_x", "left_gd_y", "left_gd_z">>

RightColumns ==
    <<"right_pc_x", "right_pc_y", "right_pc_z", "right_pd",
      "right_gd_x", "right_gd_y", "right_gd_z">>

\* lines 340-359.  Line 350 tests "left_eye" a second time where the
\* right-eye columns are added.  header[:-2] drops the separator after the
\* last column.
get_log_header(keys, triggers) ==
    <<"ts">>
        \o (IF "mems" \in keys THEN MemsColumns ELSE <<>>)
        \o (IF "gp" \in keys THEN GpColumns ELSE <<>>)
        \o (IF "gp3" \in keys THEN Gp3Columns ELSE <<>>)
        \o (IF "left_eye" \in keys THEN LeftColumns ELSE <<>>)
        \o (IF "left_eye" \in keys THEN RightColumns ELSE <<>>)
        \o triggers

\* lines 238-336; row[:-2] drops the separator after the last value and
\* leaves the empty string empty
get_log_row(keys, triggers) ==
    (IF "mems" \in keys THEN MemsColumns ELSE <<>>)
        \o (IF "gp" \in keys THEN GpColumns ELSE <<>>)
        \o (IF "gp3" \in keys THEN Gp3Columns ELSE <<>>)
        \o (IF "left_eye" \in keys THEN LeftColumns ELSE <<>>)
        \o (IF "right_eye" \in keys THEN RightColumns ELSE <<>>)
        \o triggers

\* line 372, "%s; %s \n" % (time_offset, row): the time offset, a separator
\* and the row, which is one empty field when the row is the empty string
row_line(row) == <<"ts">> \o (IF row = <<>> THEN <<"">> ELSE row)

\* lines 366-372 for the keys and triggers the logger thread was started
\* with: the header line and a row line
data_logger_lines ==
    /\ pc = "call"
    /\ op.name = "__data_logger__"
    /\ result' = R("Lines", 0, <<get_log_header(op.arg[1], op.arg[2]),
                                 row_line(get_log_row(op.arg[1], op.arg[2]))>>)
    /\ pc' = "idle"
    /\ UNCHANGED <<eventdetection, logging, streaming, session, nextid, calls, logged,
                   op, pre, loggervars, detectorvars, recordings>>

(***************************************************************************)
(* The loop of wait_for_saccade_end (lines 1408-1432), as written, from    *)
(* the valid previous position that lines 1396-1398 seek.  A call never    *)
(* gets this far (see saccade_end_body); the loop is modelled on its own,  *)
(* applied to the samples its turns poll.                                  *)
(***************************************************************************)
ValidSamples == {s \in Samples : is_valid_sample(s, "gp")}

PolledSeqs == UNION {[1..n -> Samples] : n \in 0..MaxTurns}

\* The displacements the turns compute, each between prevpos and newpos
\* (lines 1412-1416, under the test of lines 1412-1413), in order.  Line 1432,
\* prevpos = newpos, is at the level of the loop body, outside that test.
\* The threshold test of lines 1424-1427 touches neither position; it only
\* ends the loop after a turn that computed a displacement.
RECURSIVE saccade_end_displacements(_, _)
saccade_end_displacements(prevpos, samples) ==
    IF samples = <<>>
    THEN <<>>
    ELSE LET newpos == Head(samples)
         IN  (IF is_valid_sample(newpos, "gp") /\ newpos.gp # prevpos.gp
              THEN <<[prevpos |-> prevpos, newpos |-> newpos,
                      s2 |-> dist2(newpos.gp, prevpos.gp)]>>
              ELSE <<>>)
                 \o saccade_end_displacements(newpos, Tail(samples))

saccade_end_loop ==
    /\ pc = "call"
    /\ op.name = "wait_for_saccade_end"
    /\ result' = R("Displacements", 0, saccade_end_displacements(op.arg[1], op.arg[2]))
    /\ pc' = "idle"
    /\ UNCHANGED <<eventdetection, logging, streaming, session, nextid, calls, logged,
                   op, pre, loggervars, detectorvars, recordings>>

\* the calls the caller can make
HelperCalls ==
    {Op("is_valid_sample", <<sample, sample_type>>) :
        sample \in TypedSamples, sample_type \in SampleTypes}
    \cup {Op("is_same_event", <<g, p, e>>) :
            g \in SampleSeqs, p \in SampleSeqs, e \in SampleSeqs}
    \cup {Op("__data_logger__", <<keys, triggers>>) :
            keys \in SUBSET Keys, triggers \in TriggerLists}
    \cup {Op("wait_for_saccade_end", <<prevpos, samples>>) :
            prevpos \in ValidSamples, samples \in PolledSeqs}

\* a constructed tracker (lines 114-230), streaming or not, whose caller is
\* about to apply one of the helpers
InitHelpers ==
    /\ eventdetection = "pygaze"
    /\ logging = FALSE
    /\ streaming \in BOOLEAN
    /\ current_recording_id = None
    /\ current_participant_id = None
    /\ current_project_id = None
    /\ nextid = 1
    /\ calls = <<>>
    /\ logged = <<>>
    /\ op \in HelperCalls
    /\ pre = Snapshot
    /\ result = Pending
    /\ pc = "call"
    /\ logger_pc = "none"
    /\ file = <<>>
    /\ loggers = 0
    /\ rows_after_stop = 0
    /\ recordings = <<>>
    /\ entered = <<>>
    /\ polled = 0
    /\ npos = None
    /\ now = 0
    /\ spos = None
    /\ t0 = 0
    /\ data = Ret("None")
    /\ init_run = TRUE
    /\ gaze_samples = <<>>
    /\ gp3_samples = <<>>
    /\ eye_samples = <<>>

NextHelpers ==
    \/ is_valid_sample_call
    \/ is_same_event_call
    \/ data_logger_lines
    \/ saccade_end_loop

SpecHelpers == InitHelpers /\ [][NextHelpers]_vars

(***************************************************************************)
(* Claims about the session operations, checked under Spec.                *)
(***************************************************************************)

\* C1: start_recording called while current_recording_id is set is a logged
\* no-op (no create_recording / start_recording call on the link, recording,
\* participant and project ids unchanged); called while it is None it
\* creates a recording on the link for the current participant, stores the
\* id the link returned and starts that recording.
C1_StartRecordingGuard ==
    op.name = "start_recording" =>
        IF pre.current_recording_id # None
        THEN /\ calls = <<>>
             /\ logged = <<"error: The Tobii Pro Glasses is already recording!">>
             /\ current_recording_id = pre.current_recording_id
             /\ current_participant_id = pre.current_participant_id
             /\ current_project_id = pre.current_project_id
        ELSE /\ current_recording_id = Id("recording", nextid - 1)
             /\ calls = <<Call("create_recording", pre.current_participant_id),
                          Call("start_recording", current_recording_id)>>
             /\ current_participant_id = pre.current_participant_id
             /\ current_project_id = pre.current_project_id

\* A second start_recording, called while a recording is active, has returned.
C1_Witness ==
    /\ op.name = "start_recording"
    /\ pre.current_recording_id # None
    /\ pc = "idle"

\* C2: stop_recording with no active recording logs an error, calls nothing
\* on the link and leaves the session state unchanged; with an active
\* recording it calls the link's stop_recording, then
\* wait_until_recording_is_done, for that recording, and current_recording_id
\* is reset to None only once the wait has returned.
C2_StopRecordingGuard ==
    op.name = "stop_recording" =>
        IF pre.current_recording_id = None
        THEN /\ calls = <<>>
             /\ logged = <<"error: There is no recordings started!">>
             /\ Snapshot = pre
             /\ pc = "idle"
        ELSE /\ calls = <<Call("stop_recording", pre.current_recording_id),
                          Call("wait_until_recording_is_done", pre.current_recording_id)>>
             /\ pc \in {"wait_until_recording_is_done", "idle"}
             /\ pc = "wait_until_recording_is_done"
                    => current_recording_id = pre.current_recording_id
             /\ pc = "idle" => current_recording_id = None
             /\ [Snapshot EXCEPT !.current_recording_id = pre.current_recording_id] = pre

\* stop_recording was called with no active recording.
C2_Witness ==
    /\ op.name = "stop_recording"
    /\ pre.current_recording_id = None
    /\ logged = <<"error: There is no recordings started!">>

\* C3: close() on a tracker that is logging and streaming clears the logging
\* flag and joins the logger thread before it stops streaming; a close()
\* that finds the tracker neither logging nor streaming (a second close()
\* among them) makes no link call and changes no attribute.
C3_CloseOrder ==
    op.name = "close" =>
        /\ ~logging
        /\ pc \in {"join", "idle"}
        /\ pc = "join" => /\ pre.logging
                          /\ streaming = pre.streaming
                          /\ calls = <<>>
        /\ pc = "idle" => /\ ~streaming
                          /\ pre.logging => logger_pc = "exited"
                          /\ calls = IF pre.streaming
                                     THEN <<Call("stop_streaming", None)>>
                                     ELSE <<>>
        /\ (~pre.logging /\ ~pre.streaming) => (Snapshot = pre /\ calls = <<>>)
        /\ [Snapshot EXCEPT !.logging = pre.logging, !.streaming = pre.streaming] = pre

\* close() of a logging and streaming tracker has returned.
C3_Witness ==
    /\ op.name = "close"
    /\ pre.logging
    /\ pre.streaming
    /\ pc = "idle"
    /\ logger_pc = "exited"
    /\ calls = <<Call("stop_streaming", None)>>

(***************************************************************************)
(* Claims about the event dispatcher and the detectors, checked under      *)
(* SpecEvents.                                                             *)
(***************************************************************************)
Lines(seq) == {seq[i] : i \in DOMAIN seq}

Called(name, event) ==
    \/ op.name = name
    \/ op.name = "wait_for_event" /\ op.arg = event

\* C4: wait_for_event hands each event code to one detector and returns that
\* detector's result: 3 and 4 to the blink start / end waits, 5 to saccade
\* start, 6 to saccade end, 7 to fixation start, 8 to fixation end (the end
\* detectors call their start detector themselves); any code outside 3..8
\* raises the unsupported-event exception without entering a detector or
\* reading a sample.
C4_EventDispatch ==
    op.name = "wait_for_event" =>
        IF op.arg \in 3..8
        THEN /\ entered # <<>>
             /\ entered[1] = CASE op.arg = 3 -> "wait_for_blink_start"
                               [] op.arg = 4 -> "wait_for_blink_end"
                               [] op.arg = 5 -> "wait_for_saccade_start"
                               [] op.arg = 6 -> "wait_for_saccade_end"
                               [] op.arg = 7 -> "wait_for_fixation_start"
                               [] op.arg = 8 -> "wait_for_fixation_end"
             /\ Tail(entered) = CASE op.arg = 6 -> <<"wait_for_saccade_start">>
                                  [] op.arg = 8 -> <<"wait_for_fixation_start">>
                                  [] OTHER -> <<>>
             /\ result.kind # "Exception"
             /\ (pc = "idle" /\ op.arg = 7 /\ pre.streaming) => result = data
             /\ (pc = "idle" /\ op.arg = 8 /\ pre.streaming)
                    => (result.kind = "FixationEnd" /\ result.val = data.val)
        ELSE /\ entered = <<>>
             /\ polled = 0
             /\ result = Ret("Exception")
             /\ pc = "idle"

\* wait_for_event(7) has returned the fixation start its detector found.
C4_Witness ==
    /\ op.name = "wait_for_event"
    /\ op.arg = 7
    /\ pc = "idle"
    /\ result.kind = "FixationStart"
    /\ entered = <<"wait_for_fixation_start">>

\* C5: a wait for a blink start or end (called directly, or as event code 3
\* or 4) never blocks: it prints "not supported", reads no sample and has
\* returned at once, whether the tracker is streaming or not.
C5_BlinkNeverBlocks ==
    (Called("wait_for_blink_start", 3) \/ Called("wait_for_blink_end", 4)) =>
        /\ pc = "idle"
        /\ polled = 0
        /\ calls = <<>>
        /\ logged = <<NotSupported>>
        /\ result = Ret("None")
        /\ Snapshot = pre

\* A blink wait has returned while the tracker is streaming.
C5_Witness ==
    /\ op.name = "wait_for_event"
    /\ op.arg = 3
    /\ streaming
    /\ pc = "idle"
    /\ logged = <<NotSupported>>

\* C6: eventdetection is 'pygaze' in every reachable state;
\* set_detection_type returns ('pygaze', 'pygaze', 'pygaze') for every
\* argument, prints exactly one warning when the argument is 'native' and
\* none otherwise, never fails, and no detector afterwards takes its
\* `eventdetection == 'native'` branch.
DetectorOps ==
    {"wait_for_event", "wait_for_blink_start", "wait_for_blink_end",
     "wait_for_saccade_start", "wait_for_saccade_end",
     "wait_for_fixation_start", "wait_for_fixation_end"}

C6_DetectionAlwaysPygaze ==
    /\ eventdetection = "pygaze"
    /\ op.name = "set_detection_type" =>
        /\ result = R("Triple", 0, <<"pygaze", "pygaze", "pygaze">>)
        /\ logged = IF op.arg = "native" THEN <<NativeWarning>> ELSE <<>>
        /\ pc = "idle"
        /\ [Snapshot EXCEPT !.eventdetection = pre.eventdetection] = pre
    /\ op.name \in DetectorOps => NativeWarning \notin Lines(logged)

\* set_detection_type('native') has returned with its one warning.
C6_Witness ==
    /\ op.name = "set_detection_type"
    /\ op.arg = "native"
    /\ logged = <<NativeWarning>>
    /\ eventdetection = "pygaze"

\* C7 (the claim as stated; the code violates it): on a streaming tracker
\* wait_for_saccade_start returns only after it has read samples and the
\* kinematic condition has fired, and then returns a (time, position) pair.
C7_SaccadeStartBlocksUntilKinematic ==
    (Called("wait_for_saccade_start", 5) /\ pre.streaming /\ pc = "idle") =>
        /\ result.kind = "SaccadeStart"
        /\ polled >= 2

\* C8 (the claim as stated; the code violates it): on a streaming tracker
\* wait_for_saccade_end returns (end time, start position, end position).
C8_SaccadeEndReturnsTriple ==
    (Called("wait_for_saccade_end", 6) /\ pre.streaming /\ pc = "idle") =>
        result.kind = "SaccadeEnd"

\* C9 (the claim as stated; the code violates it): a saccade-start wait on a
\* streaming tracker ends only at a valid sample that differs from the
\* previous position by a displacement whose weighted size exceeds
\* weightdist; it never ends on a non-event.
C9_NoSaccadeOnNonEvent ==
    (op.name \in {"wait_for_saccade_start", "wait_for_event"}
        /\ entered = <<"wait_for_saccade_start">> /\ pre.streaming /\ pc = "idle") =>
        /\ polled >= 2
        /\ npos # None
        /\ npos.gp # Sentinel
        /\ result.kind = "SaccadeStart"
        /\ npos.gp # result.val
        /\ large_enough(npos.gp[1] - result.val[1], npos.gp[2] - result.val[2])

\* C10: in the dispersion fixation-start loop every valid sample further
\* than pxfixtresh from the anchor becomes the anchor and restarts the timer;
\* FixationStart is emitted exactly at a valid sample within pxfixtresh of
\* the anchor read fixtimetresh or more after the anchor was last
\* (re)established, with ts = that time and spos = that anchor; an invalid
\* sample changes nothing.  The first valid sample establishes the anchor.
C10_Step ==
    LET valid == npos'.gp # Sentinel
        far == dist2(npos'.gp, spos.gp) > pxfixtresh * pxfixtresh
        emitted == pc' # "fixation_start_poll"
    IN  /\ (pc = "fixation_start_seek" /\ polled' = polled + 1 /\ valid)
                => (spos' = npos' /\ t0' = now' /\ pc' = "fixation_start_poll")
        /\ (pc = "fixation_start_poll" /\ polled' = polled + 1) =>
            /\ (valid /\ far) => (spos' = npos' /\ t0' = now' /\ ~emitted)
            /\ ~(valid /\ far) => UNCHANGED <<spos, t0>>
            /\ emitted <=> (valid /\ ~far /\ now' - t0 >= fixtimetresh)
            /\ emitted => /\ data' = R("FixationStart", t0, spos)
                          /\ entered = <<"wait_for_fixation_start">>
                                => (result' = data' /\ pc' = "idle")

C11_Step ==
    (pc = "fixation_end_poll" /\ polled' = polled + 1) =>
        LET valid == npos'.gp # Sentinel
            far == dist2(npos'.gp, data.val.gp) > pxfixtresh * pxfixtresh
            emitted == pc' # "fixation_end_poll"
        IN  /\ data.kind = "FixationStart"
            /\ spos = data.val
            /\ UNCHANGED <<spos, data>>
            /\ emitted <=> (valid /\ far)
            /\ emitted => /\ pc' = "idle"
                          /\ result' = R("FixationEnd", now', data.val)
            /\ ~emitted => result' = Pending

ExperimentalCall(name) == op.name = name /\ op.arg = Experimental

C12_WindowHoldsOnlyValidTriples ==
    ((ExperimentalCall("wait_for_fixation_start") \/ ExperimentalCall("wait_for_fixation_end"))
        /\ pre.streaming /\ pc = "idle") =>
        /\ result.kind \notin {"TypeError", "NameError"}
        /\ Len(gaze_samples) >= 1
        /\ Len(gp3_samples) = Len(gaze_samples)
        /\ Len(eye_samples) = Len(gaze_samples)
        /\ \A i \in DOMAIN gaze_samples :
            /\ is_valid_sample(gaze_samples[i], "gp")
            /\ is_valid_sample(gp3_samples[i], "gp3")
            /\ is_valid_sample(eye_samples[i], "pc")

\* C13 (the claim as stated; the code violates it): an experimental
\* wait_for_fixation_start on a streaming tracker updates the window until
\* the window belongs to one event and its angular velocity is below
\* velocity_threshold, and then returns a FixationStart whose ts is the ts of
\* the middle gaze sample of the full window.
C13_ExperimentalFixationStart ==
    (ExperimentalCall("wait_for_fixation_start") /\ pre.streaming /\ pc = "idle") =>
        /\ result.kind = "FixationStart"
        /\ Len(gaze_samples) = num_fixation_samples
        /\ result.t = gaze_samples[2].ts

\* C14 (the claim as stated; the code violates it): an experimental
\* wait_for_fixation_end on a streaming tracker first obtains a fixation
\* start, then updates the window until the angular velocity exceeds
\* velocity_threshold with more than fixtimetresh elapsed since the fixation
\* start, and then returns a FixationEnd with that elapsed time.
C14_ExperimentalFixationEnd ==
    (ExperimentalCall("wait_for_fixation_end") /\ pre.streaming /\ pc = "idle") =>
        /\ result.kind = "FixationEnd"
        /\ result.t > fixtimetresh
        /\ Len(gaze_samples) = num_fixation_samples

(***************************************************************************)
(* Claims about the helper functions, checked under SpecHelpers.           *)
(***************************************************************************)
AllMinusOne(v) == \A i \in DOMAIN v : v[i] = -1

\* C15: is_valid_sample(sample, kind) with kind 'gp', 'gp3' or 'pc', applied
\* to a sample of that kind, returns False exactly when the sample's
\* coordinate vector is the sentinel (every coordinate -1) and True for every
\* other sample; it logs nothing and changes no tracker attribute.
C15_ValidIffNotSentinel ==
    (op.name = "is_valid_sample" /\ pc = "idle" /\ op.arg[2] \in {"gp", "gp3", "pc"}
        /\ op.arg[2] \in DOMAIN op.arg[1]) =>
        /\ result = Bool(~AllMinusOne(op.arg[1][op.arg[2]]))
        /\ logged = <<>>
        /\ calls = <<>>
        /\ Snapshot = pre

\* is_valid_sample has returned False for the gaze-3D sentinel.
C15_Witness ==
    /\ op.name = "is_valid_sample"
    /\ op.arg = <<[gp3 |-> <<-1, -1, -1>>], "gp3">>
    /\ result = Ret("False")

\* C16: is_valid_sample called with a kind other than 'gp', 'gp3' or 'pc'
\* logs the unsupported-type error and returns True for every sample, the
\* all -1 samples included, and changes no tracker attribute.
C16_UnknownKindIsValid ==
    (op.name = "is_valid_sample" /\ pc = "idle" /\ op.arg[2] \notin {"gp", "gp3", "pc"}) =>
        /\ result = Ret("True")
        /\ logged = <<UnsupportedType>>
        /\ calls = <<>>
        /\ Snapshot = pre

\* is_valid_sample has returned True for a sentinel sample of unknown kind.
C16_Witness ==
    /\ op.name = "is_valid_sample"
    /\ op.arg = <<[gp |-> <<-1, -1>>], "pd">>
    /\ result = Ret("True")
    /\ logged = <<UnsupportedType>>

\* C17: is_same_event applied to three sequences of equal length returns
\* True iff at every index the gidx of the gaze, gaze-3D and eye entries are
\* all equal (so a mismatch at one index in one channel gives False, and three
\* empty sequences give True); it changes no tracker attribute.
C17_SameEventIffAllIndicesAgree ==
    (op.name = "is_same_event" /\ pc = "idle"
        /\ Len(op.arg[1]) = Len(op.arg[2]) /\ Len(op.arg[2]) = Len(op.arg[3])) =>
        /\ result = Bool(\A i \in 1..Len(op.arg[1]) :
                            /\ op.arg[1][i].gidx = op.arg[2][i].gidx
                            /\ op.arg[1][i].gidx = op.arg[3][i].gidx)
        /\ Snapshot = pre

\* is_same_event has returned False for sequences that differ only in the
\* eye channel at their last index.
C17_Witness ==
    /\ op.name = "is_same_event"
    /\ Len(op.arg[1]) >= 2
    /\ op.arg[1] = op.arg[2]
    /\ Len(op.arg[3]) = Len(op.arg[1])
    /\ \A i \in 1..(Len(op.arg[1]) - 1) : op.arg[3][i] = op.arg[1][i]
    /\ op.arg[3][Len(op.arg[1])] # op.arg[1][Len(op.arg[1])]
    /\ result = Ret("False")

(***************************************************************************)
(* Further claims about the session operations and the logger thread,      *)
(* checked under Spec and FairSpec.                                        *)
(***************************************************************************)

\* C18 (the claim as stated; the code violates it): calibrate() creates a
\* project if current_project_id is None and a participant if
\* current_participant_id is None, keeps ids that exist, then creates and
\* starts a calibration for those ids and waits for it; when it has returned,
\* both ids are set and the result is the link's verdict.
C18_CalibrateCreatesWhatIsMissing ==
    (op.name = "calibrate" /\ pc = "idle") =>
        /\ current_project_id # None
        /\ current_participant_id # None
        /\ pre.current_project_id # None => current_project_id = pre.current_project_id
        /\ pre.current_participant_id # None
                => current_participant_id = pre.current_participant_id
        /\ result.kind \in {"True", "False"}
        /\ Len(calls) >= 3

\* C19: start_logging called while the tracker is logging starts no second
\* logger thread, leaves the flag True, logs the error and returns True;
\* stop_logging called while it is not logging joins nothing, leaves the flag
\* False, logs the error and returns True; in every reachable state at most
\* one logger thread is alive, and exactly one while the flag is set.
C19_LoggingGuards ==
    /\ loggers \in {0, 1}
    /\ logging => loggers = 1
    /\ (op.name = "start_logging" /\ pre.logging) =>
        /\ logging
        /\ loggers = 1
        /\ result = Ret("True")
        /\ logged = <<"error: The eye-tracker is already in logging mode.">>
        /\ pc = "idle"
    /\ (op.name = "stop_logging" /\ ~pre.logging) =>
        /\ ~logging
        /\ pc = "idle"
        /\ result = Ret("True")
        /\ logged = <<"error: The eye-tracker is not in logging mode.">>

\* A second start_logging has returned while the one logger thread is
\* writing rows.
C19_Witness ==
    /\ op.name = "start_logging"
    /\ pre.logging
    /\ pc = "idle"
    /\ loggers = 1
    /\ logger_pc = "row"
    /\ result = Ret("True")

\* C20: a stop_logging that cleared the flag has returned only once the
\* logger thread has terminated; no line is written to the log file while
\* the caller rests after a returned stop_logging; and whenever a caller
\* waits in the join, the logger thread eventually terminates.
C20_JoinedBeforeReturn ==
    (op.name = "stop_logging" /\ pre.logging /\ pc = "idle") =>
        /\ ~logging
        /\ logger_pc = "exited"
        /\ loggers = 0

C20_NoRowAfterReturn ==
    (op.name = "stop_logging" /\ pc = "idle") => file' = file

C20_CleanLoggerShutdown ==
    /\ []C20_JoinedBeforeReturn
    /\ [][C20_NoRowAfterReturn]_vars
    /\ (pc = "join") ~> (logger_pc = "exited" /\ loggers = 0)

\* stop_logging has returned after its logger thread, which had written
\* rows, terminated.
C20_Witness ==
    /\ op.name = "stop_logging"
    /\ pre.logging
    /\ pc = "idle"
    /\ logger_pc = "exited"
    /\ Len(file) >= 3
    /\ file[Len(file)] = "row"
    /\ logged = <<"debug: Stop logging!">>

\* C21: a logger thread writes at most one data row with the logging flag
\* clear, in every interleaving with the caller: the row it had already
\* decided to write when stop_logging (or close) cleared the flag; after
\* that row it only tests the flag and terminates.
C21_AtMostOneRowAfterStop ==
    /\ rows_after_stop \in {0, 1}
    /\ (rows_after_stop = 1 /\ ~logging) => logger_pc \in {"check", "exited"}
    /\ (~logging /\ logger_pc = "row") => rows_after_stop = 0

\* stop_logging has returned after the logger thread wrote one more row
\* with the flag clear and terminated.
C21_Witness ==
    /\ op.name = "stop_logging"
    /\ pre.logging
    /\ pc = "idle"
    /\ rows_after_stop = 1
    /\ logger_pc = "exited"

\* C22 (the claim as stated; the code violates it): for every subset of the
\* channel keys and every trigger list, the header line names exactly the
\* columns, in the same order, whose values every row line carries.
C22_HeaderMatchesRows ==
    (op.name = "__data_logger__" /\ pc = "idle") =>
        /\ result.val[1] = result.val[2]
        /\ Len(result.val[1]) = Len(result.val[2])


\* C23 (the claim as stated; the code violates it): over any sequence of
\* start_logging / stop_logging calls on the same log file, the file holds
\* exactly one header line once anything was written, and it is the first
\* line, before every data row.
C23_HeaderOnce ==
    \A i \in 1..Len(file) : (file[i] = "header") <=> (i = 1)


\* C24: when the tracker link rejects the start of a recording (the link's
\* start_recording call raises), start_recording raises: it neither returns
\* normally nor logs and carries on.
C24_Rejected ==
    /\ op.name = "start_recording"
    /\ pc = "idle"
    /\ calls # <<>>
    /\ recordings # <<>>
    /\ ~recordings[Len(recordings)].ok

C24_RejectedStartRaises ==
    C24_Rejected => (result = Ret("Exception") /\ logged = <<>>)

C24_Witness ==
    /\ C24_Rejected
    /\ result = Ret("Exception")
    /\ recordings[Len(recordings)] = LinkCall("start_recording", current_recording_id, FALSE)


\* C25: in the dispersion fixation detectors an invalid (sentinel) gaze sample
\* is never evidence.  A loop turn that polls a sentinel leaves the anchor, the
\* timer start, the detector's position and every result untouched (so it
\* triggers neither FixationStart nor FixationEnd); while seeking the anchor a
\* sentinel does not start the timer or enter the loop; and whenever a
\* detector loop runs, or has returned an event, its anchor is a valid sample.
C25_Step ==
    (polled' = polled + 1 /\ npos'.gp = Sentinel) =>
        /\ pc \in {"fixation_start_poll", "fixation_end_poll"} =>
                UNCHANGED <<spos, t0, pc, result, data>>
        /\ pc = "fixation_start_seek" => UNCHANGED <<t0, pc, result, data>>

C25_ValidAnchor ==
    /\ pc \in {"fixation_start_poll", "fixation_end_poll"} => spos.gp # Sentinel
    /\ (pc = "idle" /\ result.kind \in {"FixationStart", "FixationEnd"}) =>
            result.val.gp # Sentinel

C25_SentinelNeverEvidence == []C25_ValidAnchor /\ [][C25_Step]_vars

C25_Witness ==
    /\ op.name = "wait_for_fixation_end"
    /\ op.arg # Experimental
    /\ pc = "fixation_end_poll"
    /\ polled >= 3
    /\ npos.gp = Sentinel
    /\ spos.gp # Sentinel
    /\ data = R("FixationStart", t0, spos)


C27_EstimatorPrecondition ==
    ((ExperimentalCall("wait_for_fixation_start") \/ ExperimentalCall("wait_for_fixation_end"))
        /\ pre.streaming /\ pc = "idle") =>
        /\ result.kind \notin {"TypeError", "NameError", "AttributeError"}
        /\ Len(gp3_samples) = num_fixation_samples
        /\ Len(eye_samples) = num_fixation_samples
        /\ gp3_samples[num_fixation_samples].ts - gp3_samples[1].ts # 0

\* C28 (the claim as stated; the code violates it): between calls the three
\* channel windows have equal length of at most 3, and they grow by plain
\* append only while filling: once the fill phase is over (init_run cleared)
\* the windows are full, so that every later update drops the oldest entry
\* of a full window and appends one.
C28_WindowShape ==
    pc = "idle" =>
        /\ Len(gp3_samples) = Len(gaze_samples)
        /\ Len(eye_samples) = Len(gaze_samples)
        /\ Len(gaze_samples) <= num_fixation_samples
        /\ ~init_run => Len(gaze_samples) = num_fixation_samples

\* np.median of three values (lines 1166-1167): the middle one in order
median(v) ==
    CHOOSE m \in {v[1], v[2], v[3]} :
        \E i, j, k \in 1..3 :
            /\ {i, j, k} = 1..3
            /\ v[i] <= v[j] /\ v[j] <= v[k]
            /\ m = v[j]

\* C29 (the claim as stated; the code violates it): an experimental
\* wait_for_fixation_start on a streaming tracker emits a FixationStart whose
\* gaze_pos is [median of the 3 gaze x, median of the 3 gaze y] and whose gp3
\* is [median of the 3 gaze-3D x, median of the 3 gaze-3D y] of the window.
C29_FixationStartIsMedian ==
    (ExperimentalCall("wait_for_fixation_start") /\ pre.streaming /\ pc = "idle") =>
        /\ result.kind = "FixationStart"
        /\ result.val.gaze_pos =
              <<median([i \in 1..3 |-> gaze_samples[i].gp[1]]),
                median([i \in 1..3 |-> gaze_samples[i].gp[2]])>>
        /\ result.val.gp3 =
              <<median([i \in 1..3 |-> gp3_samples[i].gp3[1]]),
                median([i \in 1..3 |-> gp3_samples[i].gp3[2]])>>


\* C30: recording protocol.  In every history of start_recording /
\* stop_recording calls in which the link accepted every request, the link's
\* start_recording and stop_recording calls strictly alternate beginning with
\* a start, each stop names the id created by the immediately preceding
\* start, and current_recording_id is that id from the start until the
\* matching stop_recording has finished, and None otherwise.
C30_AllAccepted == \A i \in DOMAIN recordings : recordings[i].ok

C30_RecordingOpen ==
    \/ Len(recordings) % 2 = 1
    \/ Len(recordings) > 0 /\ pc = "wait_until_recording_is_done"

C30_RecordingProtocol ==
    C30_AllAccepted =>
        /\ \A i \in DOMAIN recordings :
              recordings[i].call = IF i % 2 = 1 THEN "start_recording" ELSE "stop_recording"
        /\ \A i \in DOMAIN recordings :
              i % 2 = 0 => recordings[i].id = recordings[i - 1].id
        /\ \A i, j \in DOMAIN recordings :
              (i % 2 = 1 /\ j % 2 = 1 /\ i # j) => recordings[i].id # recordings[j].id
        /\ (current_recording_id # None) <=> C30_RecordingOpen
        /\ C30_RecordingOpen => current_recording_id = recordings[Len(recordings)].id

C30_Witness ==
    /\ C30_AllAccepted
    /\ Len(recordings) >= 4
    /\ op.name = "stop_recording"
    /\ pc = "idle"
    /\ current_recording_id = None
    /\ recordings[4] = LinkCall("stop_recording", recordings[3].id, TRUE)
    /\ recordings[3].id # recordings[1].id


\* C31: a start_recording that the link rejected leaves current_recording_id
\* holding the id of the recording it created, not None.  While that id is
\* held, a following start_recording makes no link call and logs the
\* "already recording" error, and a following stop_recording issues the
\* link's stop_recording for that never-started recording.
C31_LastLinkCall == recordings[Len(recordings)]

C31_RejectedStartPending ==
    /\ recordings # <<>>
    /\ C31_LastLinkCall.call = "start_recording"
    /\ ~C31_LastLinkCall.ok

C31_RejectedIdIsKept ==
    /\ C31_RejectedStartPending =>
          /\ current_recording_id # None
          /\ current_recording_id = C31_LastLinkCall.id
    /\ (op.name = "start_recording" /\ pc = "idle" /\ C31_RejectedStartPending
            /\ pre.current_recording_id = C31_LastLinkCall.id) =>
          /\ calls = <<>>
          /\ logged = <<"error: The Tobii Pro Glasses is already recording!">>
          /\ result = Ret("None")
    /\ \A k \in DOMAIN recordings :
          (op.name = "stop_recording"
              /\ recordings[k] = LinkCall("start_recording", pre.current_recording_id, FALSE)) =>
            /\ k = Len(recordings) - 1
            /\ C31_LastLinkCall = LinkCall("stop_recording", recordings[k].id, TRUE)
            /\ calls = <<Call("stop_recording", recordings[k].id),
                         Call("wait_until_recording_is_done", recordings[k].id)>>

C31_Witness ==
    /\ op.name = "stop_recording"
    /\ pc = "idle"
    /\ Len(recordings) >= 2
    /\ C31_LastLinkCall.call = "stop_recording"
    /\ recordings[Len(recordings) - 1] =
          LinkCall("start_recording", C31_LastLinkCall.id, FALSE)
    /\ pre.current_recording_id = C31_LastLinkCall.id
    /\ current_recording_id = None


\* C32: set_current_participant called while current_project_id is None logs
\* an error, creates no participant on the link and leaves
\* current_participant_id and every other session id unchanged; called with a
\* project set it stores the id of a participant it created on the link under
\* exactly that project, and leaves the project and recording ids unchanged.
C32_SetCurrentParticipant ==
    (op.name = "set_current_participant" /\ pc = "idle") =>
        /\ current_project_id = pre.current_project_id
        /\ current_recording_id = pre.current_recording_id
        /\ result = Ret("None")
        /\ IF pre.current_project_id = None
           THEN /\ logged = <<"error: There is no project to assign a participant.">>
                /\ calls = <<>>
                /\ current_participant_id = pre.current_participant_id
           ELSE /\ logged = <<>>
                /\ calls = <<Call("create_participant", pre.current_project_id)>>
                /\ current_participant_id # None
                /\ current_participant_id[1] = "participant"
                /\ current_participant_id # pre.current_participant_id

C32_Witness ==
    /\ op.name = "set_current_participant"
    /\ pc = "idle"
    /\ pre.current_project_id = None
    /\ pre.current_recording_id # None
    /\ current_recording_id = pre.current_recording_id
    /\ current_participant_id = None
    /\ calls = <<>>
    /\ logged = <<"error: There is no project to assign a participant.">>

====
